---- MODULE Spec2Model ----
(***************************************************************************)
(* Model of qutebrowser/commands/runners.py: CommandRunner.parse,          *)
(* parse_all, _split_args, run, run_safely and run_safely_init, and the    *)
(* module-level last_command dictionary.                                   *)
(*                                                                         *)
(* A Python str is a sequence of one-character strings; None is the empty  *)
(* tuple and a present optional value x is <<x>>.                          *)
(***************************************************************************)
EXTENDS Integers, Sequences, FiniteSets, TLC

None == <<>>
Some(x) == <<x>>

(***************************************************************************)
(* Bounds of the model.                                                    *)
(***************************************************************************)
\* Longest text parse is called with, counted in fragments.
MaxFrags == 3
\* Cap on the nesting of the activations of parse.
MaxDepth == 4

(***************************************************************************)
(* Python str methods, as the source uses them.                            *)
(***************************************************************************)
\* str.strip() / str.split() whitespace that can occur in the modelled texts.
Whitespace == {" ", "\t", "\n", "\r"}
Digits == <<"0", "1", "2", "3", "4", "5", "6", "7", "8", "9">>

Range(s) == {s[i] : i \in DOMAIN s}

\* The least element of a non-empty set of integers.
Least(I) == CHOOSE i \in I : \A j \in I : i <= j

\* s[i:] and s[:i] with 1-based i.
From(s, i) == SubSeq(s, i, Len(s))
Upto(s, i) == SubSeq(s, 1, i)

\* str.find(c) + 1 for a one-character c: 0 when absent.
find(s, c) ==
    LET I == {i \in DOMAIN s : s[i] = c}
    IN  IF I = {} THEN 0 ELSE Least(I)

\* Index of the first whitespace character, 0 when there is none.
find_ws(s, ws) ==
    LET I == {i \in DOMAIN s : s[i] \in ws}
    IN  IF I = {} THEN 0 ELSE Least(I)

startswith(s, p) == Len(p) <= Len(s) /\ Upto(s, Len(p)) = p
endswith(s, c) == Len(s) > 0 /\ s[Len(s)] = c

lstrip_in(s, ws) ==
    LET I == {i \in DOMAIN s : s[i] \notin ws}
    IN  IF I = {} THEN <<>> ELSE From(s, Least(I))

rstrip_in(s, ws) ==
    LET I == {i \in DOMAIN s : s[i] \notin ws}
    IN  IF I = {} THEN <<>> ELSE Upto(s, CHOOSE i \in I : \A j \in I : j <= i)

strip_in(s, ws) == lstrip_in(rstrip_in(s, ws), ws)

\* str.strip() and str.rstrip() without arguments.
strip(s) == strip_in(s, Whitespace)
rstrip(s) == rstrip_in(s, Whitespace)

\* str.partition(' '): <<before, separator, after>>.
partition(s) ==
    LET at(i) == IF i = 0 THEN <<s, <<>>, <<>>>>
                 ELSE <<Upto(s, i - 1), <<" ">>, From(s, i + 1)>>
    IN  at(find(s, " "))

\* str.split(): the words between runs of whitespace.
RECURSIVE str_split(_)
str_split(s) ==
    LET word(t, i) == IF t = <<>> THEN <<>>
                      ELSE IF i = 0 THEN <<t>>
                      ELSE <<Upto(t, i - 1)>> \o str_split(From(t, i + 1))
        words(t) == word(t, find_ws(t, Whitespace))
    IN  words(lstrip_in(s, Whitespace))

\* str.split(maxsplit=1): the first word and, if any, the rest after the
\* whitespace that follows it.
str_split1(s) ==
    LET parts(t, i, r) == IF t = <<>> THEN <<>>
                          ELSE IF i = 0 THEN <<t>>
                          ELSE IF r = <<>> THEN <<Upto(t, i - 1)>>
                          ELSE <<Upto(t, i - 1), r>>
        rest(t, i) == parts(t, i, lstrip_in(From(t, i + 1), Whitespace))
        words(t) == rest(t, find_ws(t, Whitespace))
    IN  words(lstrip_in(s, Whitespace))

\* Index of the first ';;' in s, 0 when there is none.
find_sep(s) ==
    LET I == {i \in 1..(Len(s) - 1) : s[i] = ";" /\ s[i + 1] = ";"}
    IN  IF I = {} THEN 0 ELSE Least(I)

\* text.split(';;')
RECURSIVE split_sep(_)
split_sep(s) ==
    LET at(i) == IF i = 0 THEN <<s>>
                 ELSE <<Upto(s, i - 1)>> \o split_sep(From(s, i + 2))
    IN  at(find_sep(s))

\* The value of a non-empty string of decimal digits.
RECURSIVE digits_value(_)
digits_value(s) ==
    IF s = <<>> THEN 0
    ELSE 10 * digits_value(Upto(s, Len(s) - 1))
         + ((CHOOSE d \in DOMAIN Digits : Digits[d] = s[Len(s)]) - 1)

\* int(s): Some(value), or None where Python raises ValueError.  int() accepts
\* surrounding whitespace and one leading sign.
int(s) ==
    LET value(d, negative) ==
            IF d = <<>> \/ \E i \in DOMAIN d : d[i] \notin Range(Digits) THEN None
            ELSE Some(IF negative THEN 0 - digits_value(d) ELSE digits_value(d))
        signed(t) == IF t # <<>> /\ t[1] \in {"+", "-"}
                     THEN value(From(t, 2), t[1] = "-")
                     ELSE value(t, FALSE)
    IN  signed(strip(s))

\* sep.join(parts) for a one-character separator.
RECURSIVE Concat(_)
Concat(ss) == IF ss = <<>> THEN <<>> ELSE Head(ss) \o Concat(Tail(ss))

(***************************************************************************)
(* The texts of the model: command names, alias names and arguments.       *)
(***************************************************************************)
S_open == <<"o", "p", "e", "n">>
S_bind == <<"b", "i", "n", "d">>
S_foo == <<"f", "o", "o">>
S_leave_mode == <<"l", "e", "a", "v", "e", "-", "m", "o", "d", "e">>
S_command_accept == <<"c", "o", "m", "m", "a", "n", "d", "-", "a", "c", "c", "e", "p", "t">>
S_repeat_command == <<"r", "e", "p", "e", "a", "t", "-", "c", "o", "m", "m", "a", "n", "d">>
S_sep == <<";", ";">>
S_count == <<"2", ":">>
S_a == <<"a">>
S_b == <<"b">>
S_l == <<"l">>
S_q == <<"q">>
S_url == <<"{", "u", "r", "l", "}">>
S_url_pretty == <<"{", "u", "r", "l", ":", "p", "r", "e", "t", "t", "y", "}">>
S_flag == <<"-", "-", "f", "l", "a", "g">>
S_v == <<"-", "v">>
S_bar == <<"b", "a", "r">>
S_baz == <<"b", "a", "z">>
S_qux == <<"q", "u", "x">>
S_space == <<" ">>
S_tab == <<"\t">>

(***************************************************************************)
(* Collaborators.  cmdutils.cmd_dict maps each command name to its Command *)
(* object, of which the runner reads maxsplit, flags_with_args and         *)
(* no_cmd_split; config.get('aliases', name) reads the alias table.        *)
(***************************************************************************)
Command(name, maxsplit, flags, nosplit) ==
    [name |-> name, maxsplit |-> maxsplit, flags_with_args |-> flags,
     no_cmd_split |-> nosplit]

cmd_dict ==
    (S_open :> Command(S_open, None, {}, FALSE))
    @@ (S_bind :> Command(S_bind, Some(1), {}, TRUE))
    @@ (S_foo :> Command(S_foo, Some(1), {S_v}, FALSE))
    @@ (S_leave_mode :> Command(S_leave_mode, None, {}, FALSE))
    @@ (S_command_accept :> Command(S_command_accept, None, {}, FALSE))
    @@ (S_repeat_command :> Command(S_repeat_command, None, {}, FALSE))

\* The [aliases] section: a plain alias, an alias of an alias, an alias of
\* itself and an alias of a reserved command.
alias_table ==
    (S_a :> S_open) @@ (S_b :> S_a) @@ (S_l :> S_l) @@ (S_q :> S_leave_mode)

(***************************************************************************)
(* qutebrowser.misc.split, for texts without quotes and backslashes.       *)
(***************************************************************************)
\* The whitespace of misc/split.py.
split_whitespace == {"\n", "\t", " "}

\* re.split('[\n\t ]', s, maxsplit): budget -1 splits at every whitespace
\* character, budget n >= 0 at the first n.
RECURSIVE re_split(_, _)
re_split(s, budget) ==
    LET at(i) == IF i = 0 \/ budget = 0 THEN <<s>>
                 ELSE <<Upto(s, i - 1)>>
                      \o re_split(From(s, i + 1),
                                  IF budget > 0 THEN budget - 1 ELSE budget)
    IN  at(find_ws(s, split_whitespace))

\* re.split('([\n\t ])', s, maxsplit): the separators are kept as parts.
RECURSIVE re_split_keep(_, _)
re_split_keep(s, budget) ==
    LET at(i) == IF i = 0 \/ budget = 0 THEN <<s>>
                 ELSE <<Upto(s, i - 1), <<s[i]>>>>
                      \o re_split_keep(From(s, i + 1),
                                       IF budget > 0 THEN budget - 1 ELSE budget)
    IN  at(find_ws(s, split_whitespace))

\* split._combine_ws: whitespace parts are joined to the part that follows.
RECURSIVE combine_ws(_, _)
combine_ws(parts, ws) ==
    LET step(part) ==
            IF part = <<>> THEN combine_ws(Tail(parts), ws)
            ELSE IF Len(part) = 1 /\ part[1] \in split_whitespace
                 THEN combine_ws(Tail(parts), ws \o part)
            ELSE <<ws \o part>> \o combine_ws(Tail(parts), <<>>)
    IN  IF parts = <<>> THEN (IF ws = <<>> THEN <<>> ELSE <<ws>>)
        ELSE step(Head(parts))

NonEmpty(parts) == SelectSeq(parts, LAMBDA p : p # <<>>)

\* split.simple_split(s, keep, maxsplit); maxsplit is None or Some(n).
simple_split(s, keep, maxsplit) ==
    IF maxsplit = Some(0)
    THEN (IF keep THEN <<s>> ELSE <<strip_in(s, split_whitespace)>>)
    ELSE LET strip_last(parts) ==
                 NonEmpty([parts EXCEPT ![Len(parts)] = rstrip(parts[Len(parts)])])
             split(budget) ==
                 IF keep THEN combine_ws(re_split_keep(s, budget), <<>>)
                 ELSE strip_last(re_split(s, budget))
         IN  split(IF maxsplit = None THEN -1 ELSE maxsplit[1])

\* split.split(s, keep) on a text without quotes and backslashes.
split_split(s, keep) ==
    IF keep THEN combine_ws(re_split_keep(s, -1), <<>>)
    ELSE str_split(s)

(***************************************************************************)
(* CommandRunner: parsing.                                                 *)
(***************************************************************************)
\* A returned ParseResult namedtuple.
ParseResult(cmd, args, cmdline, count) ==
    [raised |-> "", msg |-> <<>>, call |-> None,
     cmd |-> cmd, args |-> args, cmdline |-> cmdline, count |-> count]

\* An exception leaving the function.
Raise(kind, msg) ==
    [raised |-> kind, msg |-> msg, call |-> None,
     cmd |-> None, args |-> None, cmdline |-> <<>>, count |-> None]

\* The recursive call self.parse(new_cmd, aliases=..., fallback, keep).
Call(text, aliases) ==
    [raised |-> "", msg |-> <<>>, call |-> Some([text |-> text, aliases |-> aliases]),
     cmd |-> None, args |-> None, cmdline |-> <<>>, count |-> None]

\* _get_alias: Raise("IndexError") when text.strip().split() is empty, else
\* value None (no alias) or Some(new_cmd).
get_alias(text) ==
    LET found(new_cmd) ==
            [raised |-> "",
             value |-> Some(IF endswith(text, " ") THEN new_cmd \o <<" ">>
                            ELSE new_cmd)]
        lookup(parts) ==
            IF parts = <<>> THEN [raised |-> "IndexError", value |-> None]
            ELSE IF parts[1] \notin DOMAIN alias_table
                 THEN [raised |-> "", value |-> None]
            ELSE IF Len(parts) >= 2
                 THEN found(alias_table[parts[1]] \o <<" ">> \o parts[2])
            ELSE found(alias_table[parts[1]])
    IN  lookup(str_split1(strip(text)))

\* _parse_count: <<count, cmdstr>>.
parse_count(cmdstr) ==
    LET at(i) == IF i = 0 THEN <<None, cmdstr>>
                 ELSE <<int(Upto(cmdstr, i - 1)), From(cmdstr, i + 1)>>
    IN  at(find(cmdstr, ":"))

\* _parse_fallback
parse_fallback(text, count, keep) ==
    LET kept(p) == <<p[1], p[2]>> \o str_split(p[3])
    IN  ParseResult(None, None,
                    IF keep THEN kept(partition(text)) ELSE str_split(text),
                    count)

\* _completion_match
completion_match(cmdstr) ==
    LET only(matches) == IF Cardinality(matches) = 1
                         THEN CHOOSE m \in matches : TRUE
                         ELSE cmdstr
    IN  only({valid_command \in DOMAIN cmd_dict :
                  startswith(valid_command, cmdstr)})

RECURSIVE split_args_loop(_, _, _, _, _, _)

\* split_args_loop with flag_arg_count never incremented.
split_args_loop_uncounted(cmd, argstr, keep, split_args, i, flag_arg_count) ==
    LET body(arg) ==
            IF startswith(arg, <<"-">>)
            THEN split_args_loop(cmd, argstr, keep, split_args, i + 1,
                                 flag_arg_count)
            ELSE simple_split(argstr, keep,
                              Some(i + cmd.maxsplit[1] + flag_arg_count))
    IN  IF i >= Len(split_args) THEN split_args
        ELSE body(strip(split_args[i + 1]))

\* The for loop of _split_args over split_args[i..], i counted from 0.
split_args_loop(cmd, argstr, keep, split_args, i, flag_arg_count) ==
    LET body(arg) ==
            IF startswith(arg, <<"-">>)
            THEN split_args_loop(cmd, argstr, keep, split_args, i + 1,
                                 IF arg \in cmd.flags_with_args
                                 THEN flag_arg_count + 1 ELSE flag_arg_count)
            ELSE simple_split(argstr, keep,
                              Some(i + cmd.maxsplit[1] + flag_arg_count))
    IN  IF i >= Len(split_args) THEN split_args
        ELSE body(strip(split_args[i + 1]))

\* _split_args
split_args(cmd, argstr, keep) ==
    IF argstr = <<>> THEN <<>>
    ELSE IF cmd.maxsplit = None THEN split_split(argstr, keep)
    ELSE split_args_loop(cmd, argstr, keep, simple_split(argstr, keep, None), 0, 0)

\* reparse_aliases with aliases left enabled in the recursive call.
reparse_aliases_on == TRUE

\* The aliases argument of the recursive call in parse.
reparse_aliases == FALSE

\* One activation of parse, up to its return, its raise or its recursive
\* call; partial_match is self._partial_match.
parse_call(text, aliases, fallback, keep, partial_match) ==
    LET \* lines 200-208
        split(cmd, cmdstr, sep, args, count) ==
            ParseResult(Some(cmd), Some(args),
                        IF keep /\ args # <<>>
                        THEN <<cmdstr, sep \o args[1]>> \o Tail(args)
                        ELSE IF keep THEN <<cmdstr, sep>>
                        ELSE <<cmdstr>> \o args,
                        count)
        \* lines 192-200
        lookup(cmdstr, sep, argstr, count) ==
            IF cmdstr \notin DOMAIN cmd_dict
            THEN IF ~fallback
                 THEN Raise("NoSuchCommandError", <<"no such command", cmdstr>>)
                 ELSE parse_fallback(text, count, keep)
            ELSE split(cmd_dict[cmdstr], cmdstr, sep,
                       split_args(cmd_dict[cmdstr], argstr, keep), count)
        \* lines 184-190
        expand(new_cmd, cmdstr, sep, argstr, count) ==
            IF new_cmd.raised # "" THEN Raise(new_cmd.raised, <<>>)
            ELSE IF new_cmd.value # None
                 THEN Call(new_cmd.value[1], reparse_aliases)
            ELSE lookup(IF partial_match THEN completion_match(cmdstr)
                        ELSE cmdstr,
                        sep, argstr, count)
        \* lines 179-183
        counted(count, cmdstr, sep, argstr) ==
            IF cmdstr = <<>> /\ ~fallback
            THEN Raise("NoSuchCommandError", <<"No command given", <<>>>>)
            ELSE expand(IF aliases THEN get_alias(text)
                        ELSE [raised |-> "", value |-> None],
                        cmdstr, sep, argstr, count)
        \* line 177
        partitioned(c, sep, argstr) == counted(c[1], c[2], sep, argstr)
        \* line 176
        start(p) == partitioned(parse_count(p[1]), p[2], p[3])
    IN  start(partition(text))

\* parse
RECURSIVE parse(_, _, _, _, _)
parse(text, aliases, fallback, keep, partial_match) ==
    LET return(r) ==
            IF r.call # None
            THEN parse(r.call[1].text, r.call[1].aliases, fallback, keep,
                       partial_match)
            ELSE r
    IN  return(parse_call(text, aliases, fallback, keep, partial_match))

\* Lines 120-130 of parse_all: the texts to parse, or the exception of the
\* check of the first command.
parse_all_subtexts(text, aliases, fallback, keep, partial_match) ==
    LET stripped(parts) == [i \in DOMAIN parts |-> strip(parts[i])]
        check(result) ==
            IF result.raised # ""
            THEN [raised |-> result.raised, sub_texts |-> <<>>]
            ELSE IF result.cmd = None
            THEN [raised |-> "AttributeError", sub_texts |-> <<>>]
            ELSE IF result.cmd[1].no_cmd_split
            THEN [raised |-> "", sub_texts |-> <<text>>]
            ELSE [raised |-> "", sub_texts |-> stripped(split_sep(text))]
        first(parts) ==
            check(parse(parts[1], aliases, fallback, keep, partial_match))
    IN  IF find_sep(text) # 0 THEN first(split_sep(text))
        ELSE [raised |-> "", sub_texts |-> <<text>>]

\* The for loop of parse_all from sub_texts[i] on, run to its end: the
\* results yielded and the exception that ended the generator, if any.
RECURSIVE parse_all_loop(_, _, _, _, _, _)
parse_all_loop(sub_texts, i, aliases, fallback, keep, partial_match) ==
    LET more(r, rest) ==
            [yielded |-> <<r>> \o rest.yielded, raised |-> rest.raised]
        yield(r) ==
            IF r.raised # "" THEN [yielded |-> <<>>, raised |-> r.raised]
            ELSE more(r, parse_all_loop(sub_texts, i + 1, aliases, fallback,
                                        keep, partial_match))
    IN  IF i > Len(sub_texts) THEN [yielded |-> <<>>, raised |-> ""]
        ELSE yield(parse(sub_texts[i], aliases, fallback, keep, partial_match))

\* list(parse_all(text, ...))
parse_all(text, aliases, fallback, keep, partial_match) ==
    LET loop(st) ==
            IF st.raised # "" THEN [yielded |-> <<>>, raised |-> st.raised]
            ELSE parse_all_loop(st.sub_texts, 1, aliases, fallback, keep,
                                partial_match)
    IN  loop(parse_all_subtexts(text, aliases, fallback, keep, partial_match))

(***************************************************************************)
(* CommandRunner: running.                                                 *)
(***************************************************************************)
\* The current page, as QUrl.toString renders it with FullyEncoded |
\* RemovePassword and with RemovePassword.
url_encoded == <<"h", ":", "/", "/", "u", "@", "x", "/", "%", "2", "0">>
url_pretty_text == <<"h", ":", "/", "/", "u", "@", "x", "/", " ">>
current_url == [encoded |-> url_encoded, pretty |-> url_pretty_text]

\* replace_variables; url is None when tabbed_browser.current_url() raises
\* QtValueError, which _current_url turns into CommandError.
replace_variables(arglist, url) ==
    IF url = None /\ (S_url \in Range(arglist) \/ S_url_pretty \in Range(arglist))
    THEN [raised |-> "CommandError", args |-> <<>>]
    ELSE [raised |-> "",
          args |-> [i \in DOMAIN arglist |->
                        IF arglist[i] = S_url THEN url[1].encoded
                        ELSE IF arglist[i] = S_url_pretty THEN url[1].pretty
                        ELSE arglist[i]]]

\* resolve_count with the check for a count given twice left out.
resolve_count_unchecked(count, result_count) ==
    IF count # None THEN [raised |-> "", count |-> count]
    ELSE [raised |-> "", count |-> result_count]

\* Lines 279-287 of run: the count cmd.run is called with (None: called
\* without a count), or CommandMetaError.
resolve_count(count, result_count) ==
    IF count # None
    THEN IF result_count # None
         THEN [raised |-> "CommandMetaError", count |-> None]
         ELSE [raised |-> "", count |-> count]
    ELSE IF result_count # None THEN [raised |-> "", count |-> result_count]
    ELSE [raised |-> "", count |-> None]

\* not_recorded without 'repeat-command'.
not_recorded_short == {S_leave_mode, S_command_accept}

\* The commands that run does not record in last_command.
not_recorded == {S_leave_mode, S_command_accept, S_repeat_command}

\* The value run stores in last_command[mode].
last_command_value(text, count, result) ==
    <<parse_count(text)[2], IF count # None THEN count ELSE result.count>>

\* cmdexc: NoSuchCommandError is a CommandMetaError; the wrappers catch
\* CommandMetaError and CommandError.
is_caught(e) == e \in {"CommandMetaError", "NoSuchCommandError", "CommandError"}

(***************************************************************************)
(* Inputs.                                                                 *)
(***************************************************************************)
\* Longest chain run is called with, counted in ';;'-separated segments.
MaxSegs == 2
\* Longest argument string _split_args is called with, counted in words.
MaxArgs == 5

Modes == {"normal", "command"}
Counts == {None, Some(5)}

Segments ==
    {<<>>, S_space, S_tab, S_open, S_count \o S_open, <<":">> \o S_open,
     S_open \o S_space \o S_url, S_open \o S_space \o <<"h", ":", "x">>,
     S_leave_mode, S_command_accept, S_repeat_command, S_q, <<"x">>,
     S_bind \o S_space \o <<"x">>}

RECURSIVE join(_, _)
join(sep, parts) ==
    IF parts = <<>> THEN <<>>
    ELSE IF Len(parts) = 1 THEN parts[1]
    ELSE parts[1] \o sep \o join(sep, Tail(parts))

Tuples(S, n) == UNION {[1..k -> S] : k \in 0..n}

\* The texts run_safely is called with.
RunTexts == {join(S_sep, t) : t \in Tuples(Segments, MaxSegs) \ {<<>>}}

ParseFrags == {S_open, S_bind, S_count, S_space, S_tab, S_sep, S_a}

\* The texts parse and parse_all are called with.
ParseTexts == {Concat(t) : t \in Tuples(ParseFrags, MaxFrags)}

AliasFrags == {S_open, S_count, S_space, S_a, S_b, S_l}

\* The texts the stepwise parse is called with.
AliasTexts == {Concat(t) : t \in Tuples(AliasFrags, MaxFrags)}

ArgWords == {S_flag, S_v, S_bar, S_baz, S_qux}

\* The argument strings _split_args is called with.
ArgStrs == {join(S_space, t) : t \in Tuples(ArgWords, MaxArgs)}

Flags == [aliases : BOOLEAN, fallback : BOOLEAN, keep : BOOLEAN]

(***************************************************************************)
(* State.                                                                  *)
(***************************************************************************)
VARIABLES
    partial_match,  \* self._partial_match
    pc,             \* where the call in progress stands
    op,             \* the method that was called
    text,           \* its text (argstr for _split_args)
    count,          \* the count argument of run_safely
    flags,          \* the aliases, fallback and keep arguments of parse
    cur,            \* text and aliases of the running activation of parse
    depth,          \* activations of parse entered by the call
    lookups,        \* reads of the alias table made by the call
    cmd,            \* the cmd argument of _split_args
    ret,            \* what the call returned or raised
    sub_texts,      \* parse_all's sub_texts
    idx,            \* number of the segment the for loop of run is at
    result,         \* the ParseResult the loop of run is at
    args,           \* its arguments after replace_variables
    exc,            \* the exception propagating out of run
    last_command,   \* the module's last_command dict: mode -> (text, count)
    mode,           \* mode_manager.mode
    messages,       \* the calls of message.error
    invoked,        \* the calls of cmd.run
    trace           \* history of run: <<event, segment, stage>>

vars == <<partial_match, pc, op, text, count, flags, cur, depth, lookups, cmd,
          ret, sub_texts, idx, result, args, exc, last_command, mode, messages,
          invoked, trace>>

NoFlags == [aliases |-> TRUE, fallback |-> FALSE, keep |-> FALSE]
NoResult == ParseResult(None, None, <<>>, None)

\* CommandRunner(win_id, partial_match) constructed, last_command = {}.
Init ==
    /\ partial_match \in BOOLEAN
    /\ pc = "idle"
    /\ op = ""
    /\ text = <<>>
    /\ count = None
    /\ flags = NoFlags
    /\ cur = [text |-> <<>>, aliases |-> TRUE]
    /\ depth = 0
    /\ lookups = 0
    /\ cmd = <<>>
    /\ ret = NoResult
    /\ sub_texts = <<>>
    /\ idx = 0
    /\ result = NoResult
    /\ args = <<>>
    /\ exc = ""
    /\ last_command = [m \in Modes |-> None]
    /\ mode = "normal"
    /\ messages = <<>>
    /\ invoked = <<>>
    /\ trace = <<>>

parse_vars == <<flags, cur, depth, lookups, cmd, ret>>
run_vars == <<count, sub_texts, idx, result, args, exc, last_command, mode,
              messages, invoked, trace>>

(***************************************************************************)
(* run_safely(text, count) and the steps of run.                           *)
(***************************************************************************)
run_safely ==
    /\ pc = "idle"
    /\ \E t \in RunTexts, c \in Counts :
          /\ text' = t
          /\ count' = c
    /\ pc' = "next"
    /\ op' = "run_safely"
    /\ UNCHANGED <<partial_match, parse_vars, sub_texts, idx, result, args, exc,
                   last_command, mode, messages, invoked, trace>>

\* raise with the exception swallowed: the loop goes on to the next segment.
raise_swallowed(e, k, st, events) ==
    /\ exc' = e
    /\ pc' = "next"
    /\ trace' = trace \o events \o <<<<"fail", k, st>>>>

\* run leaves its loop with exception e, raised at stage st of segment k.
raise(e, k, st, events) ==
    /\ exc' = e
    /\ pc' = "raised"
    /\ trace' = trace \o events \o <<<<"fail", k, st>>>>

\* The for statement of run asks parse_all for its next result: on the first
\* request the generator runs from its start to its first yield.
parse_all_next ==
    /\ pc = "next"
    /\ LET yield(r, ev) ==
               IF r.raised # ""
               THEN /\ raise(r.raised, idx + 1, "parse", ev)
                    /\ UNCHANGED result
               ELSE /\ result' = r
                    /\ pc' = "replace"
                    /\ trace' = trace \o ev
                    /\ UNCHANGED exc
           loop(st, first) ==
               IF st.raised # ""
               THEN /\ raise(st.raised, 1, "parse", first)
                    /\ UNCHANGED <<sub_texts, idx, result>>
               ELSE IF idx >= Len(st.sub_texts)
               THEN /\ pc' = "returned"
                    /\ UNCHANGED <<sub_texts, idx, result, exc, trace>>
               ELSE /\ sub_texts' = st.sub_texts
                    /\ idx' = idx + 1
                    /\ yield(parse(st.sub_texts[idx + 1], TRUE, FALSE, FALSE,
                                   partial_match),
                             first \o <<<<"parse", idx + 1, "parse">>>>)
       IN  loop(IF idx = 0
                THEN parse_all_subtexts(text, TRUE, FALSE, FALSE, partial_match)
                ELSE [raised |-> "", sub_texts |-> sub_texts],
                IF idx = 0 /\ find_sep(text) # 0
                THEN <<<<"first", 1, "parse">>>> ELSE <<>>)
    /\ UNCHANGED <<partial_match, op, text, count, parse_vars, args,
                   last_command, mode, messages, invoked>>

\* args = replace_variables(self._win_id, result.args)
run_replace_variables ==
    /\ pc = "replace"
    /\ \E url \in {None, Some(current_url)} :
          LET replaced(r) ==
                  IF r.raised # ""
                  THEN /\ raise(r.raised, idx, "replace", <<>>)
                       /\ UNCHANGED args
                  ELSE /\ args' = r.args
                       /\ pc' = "invoke"
                       /\ UNCHANGED <<exc, trace>>
          IN  replaced(replace_variables(result.args[1], url))
    /\ UNCHANGED <<partial_match, op, text, count, parse_vars, sub_texts, idx,
                   result, last_command, mode, messages, invoked>>

\* The outcomes of cmd.run: it returns, having left the window in some mode,
\* or raises a CommandError or another exception.
Outcomes == {"return", "CommandError", "Exception"}

\* Lines 279-287: the count is resolved and result.cmd.run is called.
run_invoke ==
    /\ pc = "invoke"
    /\ LET call(rc) ==
               IF rc.raised # ""
               THEN /\ raise(rc.raised, idx, "count", <<>>)
                    /\ UNCHANGED <<invoked, mode>>
               ELSE \E outcome \in Outcomes, m \in Modes :
                       /\ invoked' = Append(invoked,
                                            [seg |-> idx,
                                             cmd |-> result.cmd[1].name,
                                             args |-> args, count |-> rc.count])
                       /\ IF outcome = "return"
                          THEN /\ mode' = m
                               /\ pc' = "update"
                               /\ trace' = Append(trace,
                                                  <<"invoke", idx, "invoke">>)
                               /\ UNCHANGED exc
                          ELSE /\ m = mode
                               /\ raise(outcome, idx, "invoke",
                                        <<<<"invoke", idx, "invoke">>>>)
                               /\ UNCHANGED mode
       IN  call(resolve_count(count, result.count))
    /\ UNCHANGED <<partial_match, op, text, count, parse_vars, sub_texts, idx,
                   result, args, last_command, messages>>

\* Lines 289-295: last_command[mode_manager.mode] is set, unless the command
\* is one of those not recorded.
run_update_last_command ==
    /\ pc = "update"
    /\ last_command' =
           IF result.cmdline[1] \notin not_recorded
           THEN [last_command EXCEPT
                     ![mode] = Some(last_command_value(text, count, result))]
           ELSE last_command
    /\ trace' = Append(trace, <<"update", idx, "update">>)
    /\ pc' = "next"
    /\ UNCHANGED <<partial_match, op, text, count, parse_vars, sub_texts, idx,
                   result, args, exc, mode, messages, invoked>>

\* The except clause of run_safely: a CommandMetaError or CommandError is
\* reported with message.error(..., immediately=True); anything else
\* propagates to the caller of run_safely.
run_safely_except ==
    /\ pc = "raised"
    /\ IF is_caught(exc)
       THEN /\ messages' = Append(messages, [e |-> exc, immediately |-> TRUE])
            /\ pc' = "returned"
       ELSE /\ pc' = "escaped"
            /\ UNCHANGED messages
    /\ UNCHANGED <<partial_match, op, text, count, parse_vars, sub_texts, idx,
                   result, args, exc, last_command, mode, invoked, trace>>

Next ==
    \/ run_safely
    \/ parse_all_next
    \/ run_replace_variables
    \/ run_invoke
    \/ run_update_last_command
    \/ run_safely_except

Spec == Init /\ [][Next]_vars

(***************************************************************************)
(* parse and parse_all called on their own.                                *)
(***************************************************************************)
call_parse ==
    /\ pc = "idle"
    /\ \E t \in ParseTexts, f \in Flags :
          /\ text' = t
          /\ flags' = f
          /\ ret' = parse(t, f.aliases, f.fallback, f.keep, partial_match)
    /\ pc' = "returned"
    /\ op' = "parse"
    /\ UNCHANGED <<partial_match, cur, depth, lookups, cmd, run_vars>>

\* list(parse_all(text, ...)): the generator is run to its end.
call_parse_all ==
    /\ pc = "idle"
    /\ \E t \in ParseTexts, f \in Flags :
          /\ text' = t
          /\ flags' = f
          /\ ret' = parse_all(t, f.aliases, f.fallback, f.keep, partial_match)
    /\ pc' = "returned"
    /\ op' = "parse_all"
    /\ UNCHANGED <<partial_match, cur, depth, lookups, cmd, run_vars>>

NextParse ==
    \/ call_parse
    \/ call_parse_all

SpecParse == Init /\ [][NextParse]_vars

(***************************************************************************)
(* parse, one activation at a time.                                        *)
(***************************************************************************)
\* Whether an activation of parse calls _get_alias (lines 179-183).
calls_get_alias(t, aliases, fallback) ==
    aliases /\ ~(parse_count(partition(t)[1])[2] = <<>> /\ ~fallback)

parse_enter ==
    /\ pc = "idle"
    /\ \E t \in AliasTexts, f \in Flags :
          /\ text' = t
          /\ flags' = f
          /\ cur' = [text |-> t, aliases |-> f.aliases]
    /\ pc' = "parse"
    /\ op' = "parse"
    /\ depth' = 1
    /\ UNCHANGED <<partial_match, lookups, cmd, ret, run_vars>>

\* The running activation returns or raises, which ends the call (the outer
\* activation returns what the inner one did), or calls parse again.
parse_activation ==
    /\ pc = "parse"
    /\ lookups' = IF calls_get_alias(cur.text, cur.aliases, flags.fallback)
                  THEN lookups + 1 ELSE lookups
    /\ LET step(r) ==
               IF r.call # None
               THEN /\ depth < MaxDepth
                    /\ cur' = r.call[1]
                    /\ depth' = depth + 1
                    /\ UNCHANGED <<pc, ret>>
               ELSE /\ ret' = r
                    /\ pc' = "returned"
                    /\ UNCHANGED <<cur, depth>>
       IN  step(parse_call(cur.text, cur.aliases, flags.fallback, flags.keep,
                           partial_match))
    /\ UNCHANGED <<partial_match, op, text, flags, cmd, run_vars>>

NextSteps ==
    \/ parse_enter
    \/ parse_activation

SpecSteps == Init /\ [][NextSteps]_vars

(***************************************************************************)
(* _split_args called on its own.                                          *)
(***************************************************************************)
call_split_args ==
    /\ pc = "idle"
    /\ \E c \in {S_open, S_bind, S_foo}, a \in ArgStrs, k \in BOOLEAN :
          /\ cmd' = c
          /\ text' = a
          /\ flags' = [aliases |-> FALSE, fallback |-> FALSE, keep |-> k]
          /\ ret' = split_args(cmd_dict[c], a, k)
    /\ pc' = "returned"
    /\ op' = "_split_args"
    /\ UNCHANGED <<partial_match, cur, depth, lookups, run_vars>>

NextSplit == call_split_args

SpecSplit == Init /\ [][NextSplit]_vars

(***************************************************************************)
(* Properties.                                                             *)
(***************************************************************************)
Last(s) == s[Len(s)]

\* The calls of cmd.run made for segment k.
InvokedFor(k) == {i \in DOMAIN invoked : invoked[i].seg = k}

\* The positions of event ev of segment k in the trace.
Events(ev, k) == {i \in DOMAIN trace : trace[i][1] = ev /\ trace[i][2] = k}

\* C1: run_safely lets no exception escape for a malformed text: an exception
\* reaches the caller only when cmd.run itself raised one that is no command
\* error; at most one error is reported, and once it is reported the call is
\* over.
C1_RunSafelyNeverRaises ==
    /\ pc = "escaped" => Last(trace)[3] = "invoke"
    /\ Len(messages) <= 1
    /\ messages # <<>> => pc = "returned"

\* C2: a count given by the caller and by the prefix makes run raise
\* CommandMetaError without invoking the command; one count alone is the
\* count the command is invoked with; without any it is invoked without one.
C2_CountResolution ==
    (pc \in {"update", "raised"} /\ trace # <<>>
        /\ Last(trace)[2] = idx /\ Last(trace)[3] \in {"count", "invoke"})
    => IF count # None /\ result.count # None
       THEN exc = "CommandMetaError" /\ pc = "raised" /\ InvokedFor(idx) = {}
       ELSE /\ Cardinality(InvokedFor(idx)) = 1
            /\ \A i \in InvokedFor(idx) :
                  /\ count # None => invoked[i].count = count
                  /\ result.count # None => invoked[i].count = result.count
                  /\ (count = None /\ result.count = None)
                         => invoked[i].count = None

C2_BothCountsWitness ==
    /\ pc = "raised" /\ exc = "CommandMetaError"
    /\ count = Some(5) /\ result.count = Some(2)
    /\ InvokedFor(idx) = {}

\* C3: dispatching leave-mode, command-accept or repeat-command leaves the
\* record of every mode as it was; dispatching any other command writes the
\* record of the current mode and no other.
C3_ReservedNotRecorded ==
    [][pc = "update" =>
          IF result.cmd[1].name
                 \in {S_leave_mode, S_command_accept, S_repeat_command}
          THEN last_command' = last_command
          ELSE /\ last_command'[mode] # None
               /\ \A m \in Modes \ {mode} : last_command'[m] = last_command[m]]_vars

C3_ReservedAfterRecordedWitness ==
    /\ pc = "next" /\ idx = 2
    /\ result.cmd[1].name = S_repeat_command
    /\ Events("update", 2) # {}
    /\ \E m \in Modes : last_command[m] # None

\* The text with the prefix of its command token, up to the first ':' of
\* the token, removed; the text itself when the token has no ':'.
WithoutCountPrefix(t) ==
    LET stripped(p) == parse_count(p[1])[2] \o p[2] \o p[3]
    IN  stripped(partition(t))

\* C4: the text stored in last_command is the input text without its leading
\* '<int>:' prefix, and the stored count is the count of the invocation.
C4_StoredTextAndCount ==
    \A m \in Modes :
        last_command[m] # None =>
            /\ last_command[m][1][1] = WithoutCountPrefix(text)
            /\ \E i \in DOMAIN invoked : last_command[m][1][2] = invoked[i].count

\* Whether the text before the first ';;' of t parses to a command with
\* no_cmd_split.
FirstIsNoSplit(t, f) ==
    LET r == parse(split_sep(t)[1], f.aliases, f.fallback, f.keep, partial_match)
    IN  r.raised = "" /\ r.cmd # None /\ r.cmd[1].no_cmd_split

WholeParse == parse(text, flags.aliases, flags.fallback, flags.keep, partial_match)

\* C5: parse_all of a text with ';;' whose first segment is a no_cmd_split
\* command yields exactly one result, the result of parse of the whole text.
C5_OneResultForWholeText ==
    (op = "parse_all" /\ find_sep(text) # 0 /\ FirstIsNoSplit(text, flags))
    => ret.raised = "" /\ ret.yielded = <<WholeParse>> /\ WholeParse.raised = ""

\* C6: parse with fallback=true does not fail, and a result without a
\* command has no arguments.
C6_FallbackNeverFails ==
    (op = "parse" /\ flags.fallback)
    => ret.raised = "" /\ (ret.cmd = None => ret.args = None)

\* C7 as stated: for foo (maxsplit 1, '-v' in flags_with_args) the argument
\* string '--flag -v bar baz qux' is split into four arguments.
C7_Example == join(S_space, <<S_flag, S_v, S_bar, S_baz, S_qux>>)

C7_IsExample ==
    op = "_split_args" /\ cmd = S_foo /\ text = C7_Example /\ ~flags.keep

C7_FourArguments ==
    C7_IsExample => ret = <<S_flag, S_v, S_bar, S_baz \o S_space \o S_qux>>

\* C7 as amended: it is split into the five arguments '--flag', '-v', 'bar',
\* 'baz', 'qux' (the bound is 2 + 1 + 1 = 4 splits).
C7_FiveArguments ==
    C7_IsExample => ret = <<S_flag, S_v, S_bar, S_baz, S_qux>>

C7_ExampleWitness == C7_IsExample /\ pc = "returned" /\ Len(ret) = 5

\* C8: a call of parse reads the alias table at most once and enters at most
\* two activations, the second with aliases=false.
C8_AliasExpandedOnce ==
    /\ lookups <= 1
    /\ depth <= 2
    /\ (depth = 2 => ~cur.aliases)

C8_SelfAliasWitness ==
    /\ pc = "returned" /\ text = S_l /\ depth = 2 /\ lookups = 1
    /\ ret.raised = "NoSuchCommandError"

\* C9: segment k + 1 is parsed only after segment k was invoked and its
\* update made; a failure at segment k is the last event of the call, comes
\* after the invocation of every earlier segment, and segment k has no
\* update and, unless the failure is that of its invocation, no invocation.
C9_LazyInOrder ==
    \A i \in DOMAIN trace :
        LET k == trace[i][2]
        IN  /\ (trace[i][1] = "parse" /\ k > 1) =>
                   \E j \in Events("invoke", k - 1), u \in Events("update", k - 1) :
                       j < u /\ u < i
            /\ trace[i][1] = "fail" =>
                   /\ i = Len(trace)
                   /\ \A n \in 1..(k - 1) :
                          InvokedFor(n) # {} /\ Events("update", n) # {}
                   /\ Events("update", k) = {}
                   /\ \A n \in DOMAIN invoked : invoked[n].seg <= k
                   /\ trace[i][3] # "invoke" => InvokedFor(k) = {}
                   /\ trace[i][3] = "invoke" => Cardinality(InvokedFor(k)) = 1

C9_SecondSegmentFailsWitness ==
    /\ trace # <<>> /\ Last(trace) = <<"fail", 2, "parse">>
    /\ InvokedFor(1) # {} /\ last_command[mode] # None

\* C10: for 'N:a rest' with an alias a, parse expands a and resolves the
\* command that it resolves for 'a rest'.
C10_AliasAfterCount ==
    (op = "parse" /\ flags.aliases
        /\ parse_count(partition(text)[1])[1] # None
        /\ parse_count(partition(text)[1])[2] \in DOMAIN alias_table)
    => /\ ret.raised = ""
       /\ ret.cmd = parse(WithoutCountPrefix(text), TRUE, flags.fallback, flags.keep,
                          partial_match).cmd

====
